---- MODULE Spec2Model ----
(***************************************************************************)
(* ALVR dashboard (alvr/dashboard/src/dashboard/mod.rs) and launcher       *)
(* (alvr/launcher/src/main.rs): the per-frame update of the dashboard with *)
(* its SteamVR restart gate, and the launcher's installer worker with its  *)
(* two channels.  The two programs are separate processes; each has its    *)
(* own specification over the shared variable list.                        *)
(***************************************************************************)
EXTENDS Integers, Sequences, FiniteSets, TLC

\* ------------------------------------------------------------------ bounds
\* events the server publishes during a run
MaxEvents == 1
\* ServerRequestsSelfRestart events the server publishes in a run of RestartSpec
MaxRestarts == 3
\* Session events the server publishes in a run of SessionSpec
MaxSessions == 2
\* operator inputs (clicks, answers of the wizard, the tabs and the popup) in a run
MaxInputs == 1
\* events the server publishes in a run of BatchSpec
MaxBatch == 2
\* NewVersionFound events the server publishes in a run of PopupSpec
MaxVersions == 2
\* commands the launcher UI submits in a run
MaxCmds == 3
\* ProgressUpdate messages the worker emits per command
MaxProgress == 1

\* ------------------------------------------------------------- data model
\* SessionConfig, reduced to the fields the dashboard reads; session_settings
\* is the stored (flat) form of the settings
SessionSettings ==
    [open_setup_wizard : BOOLEAN,
     open_close_steamvr_with_dashboard : BOOLEAN]

SessionConfig ==
    [client_connections : {1, 2}, session_settings : SessionSettings]

\* SessionConfig::to_settings: the Settings derived from the stored form
to_settings(s) ==
    [extra |->
        [open_setup_wizard |-> s.session_settings.open_setup_wizard,
         steamvr_launcher |->
            [open_close_steamvr_with_dashboard |->
                s.session_settings.open_close_steamvr_with_dashboard]]]

\* Option<T> is a sequence of length at most one
None == << >>
Some(x) == << x >>

\* alvr_events::EventType as matched by Dashboard::update
NoOpEventTypes == {"DebugGroup", "Tracking", "Buttons", "Haptics"}

EventType ==
    {"Log", "GraphStatistics", "StatisticsSummary", "Session",
     "ServerRequestsSelfRestart", "DriversList", "Adb", "NewVersionFound"}
    \cup NoOpEventTypes

Ev(t, s, a) == [event_type |-> t, session |-> s, arg |-> a]

Events ==
    {Ev(t, None, 1) : t \in EventType \ {"Session", "NewVersionFound"}}
    \cup {Ev("Session", Some(s), 0) : s \in SessionConfig}
    \cup {Ev("NewVersionFound", None, v) : v \in {1, 2}}

\* the tabs of the side panel
Tab == {"Devices", "Statistics", "Settings", "Installation", "Logs", "Debug", "About"}

\* ServerRequest values handed to DataSources::request
RestartSteamvrReq == "RestartSteamvr"
CloseWizardReq == "SetValues(session_settings.extra.open_setup_wizard=false)"

\* --------------------------------------------------------------- variables
VARIABLES
    \* DataSources: the pollable event source and the request sink
    event_queue, transport,
    \* Dashboard fields
    just_opened, server_restarting, selected_tab, setup_wizard_open,
    new_version_popup, session,
    connections_tab, statistics_tab, settings_tab, installation_tab,
    logs_tab, notification_bar,
    \* the interactive thread inside Dashboard::update
    ui_pc, rs_return, sh_return, requests, connected_to_server,
    \* server_restarting's mutex and condvar, the LAUNCHER mutex, the
    \* threads spawned by restart_steamvr
    restarting_lock, condvar_waiting, launcher_lock, threads,
    \* history: events applied so far, operator inputs taken,
    \* wizard openings raised by Session events
    consumed, inputs, wizard_raises,
    \* history: every request pushed onto a frame's requests vector
    appended,
    \* launcher: the two mpsc channels, main and the worker thread
    ui_message_chan, worker_message_chan, sender_dropped,
    main_pc, worker_pc, current, progress_sent,
    \* history: commands sent, commands received, messages emitted
    submitted, received, emitted

tabVars ==
    <<connections_tab, statistics_tab, settings_tab, installation_tab,
      logs_tab, notification_bar>>

fieldVars ==
    <<just_opened, selected_tab, setup_wizard_open, new_version_popup, session>>

restartVars ==
    <<server_restarting, restarting_lock, condvar_waiting, launcher_lock, threads>>

sourceVars == <<event_queue, consumed>>

launcherVars ==
    <<ui_message_chan, worker_message_chan, sender_dropped, main_pc,
      worker_pc, current, progress_sent, submitted, received, emitted>>

dashVars ==
    <<event_queue, transport, just_opened, server_restarting, selected_tab,
      setup_wizard_open, new_version_popup, session, connections_tab,
      statistics_tab, settings_tab, installation_tab, logs_tab,
      notification_bar, ui_pc, rs_return, sh_return, requests,
      connected_to_server, restarting_lock, condvar_waiting, launcher_lock,
      threads, consumed, inputs,
      wizard_raises, appended>>

vars == <<dashVars, launcherVars>>

\* one thread per restart_steamvr call: a call per event or per click at most
ThreadIds == 1..(MaxEvents + MaxRestarts + MaxInputs)

\* ------------------------------------------------------- dashboard: Init
\* Dashboard::new
DashInit ==
    /\ event_queue = << >>
    /\ transport = << "GetSession" >>
    /\ just_opened = TRUE
    /\ server_restarting = FALSE
    /\ selected_tab = "Devices"
    /\ setup_wizard_open = FALSE
    /\ new_version_popup = None
    /\ session = None
    /\ connections_tab = [clients |-> None, adb_download_progress |-> None]
    /\ statistics_tab = [graph |-> None, summary |-> None]
    /\ settings_tab = [session_settings |-> None]
    /\ installation_tab = [drivers |-> None]
    /\ logs_tab = [entries |-> << >>, settings |-> None]
    /\ notification_bar = [notifications |-> << >>, settings |-> None]
    /\ ui_pc = "idle"
    /\ rs_return = "drain"
    /\ sh_return = "end"
    /\ requests = << >>
    /\ connected_to_server = FALSE
    /\ restarting_lock = "free"
    /\ condvar_waiting = FALSE
    /\ launcher_lock = "free"
    /\ threads = [t \in ThreadIds |-> "unborn"]
    /\ consumed = << >>
    /\ inputs = 0
    /\ wizard_raises = 0
    /\ appended = << >>

\* ------------------------------------------- dashboard: the event source
\* The server publishes an event; poll_event will return it later.  bound
\* caps the events of a run.
Publish(e, bound) ==
    /\ Len(event_queue) + Len(consumed) < bound
    /\ event_queue' = Append(event_queue, e)
    /\ UNCHANGED <<transport, fieldVars, tabVars, restartVars, ui_pc,
                   rs_return, sh_return, requests, connected_to_server,
                   consumed, inputs, wizard_raises>>
    /\ UNCHANGED <<appended, launcherVars>>

\* ------------------------------------------------ dashboard: observers
\* LogsTab::push_event: a Log event is appended to the log history
push_event(tab, e) ==
    IF e.event_type = "Log"
    THEN [tab EXCEPT !.entries = Append(@, e.arg)]
    ELSE tab

\* NotificationBar::push_notification
push_notification(bar, e) ==
    [bar EXCEPT !.notifications = Append(@, e.arg)]

\* DevicesTab::update_client_list
update_client_list(tab, s) ==
    [tab EXCEPT !.clients = Some(s.client_connections)]

\* SettingsTab::update_session
update_session(tab, ss) == [tab EXCEPT !.session_settings = Some(ss)]

\* LogsTab::update_settings and NotificationBar::update_settings
update_settings(tab, settings) == [tab EXCEPT !.settings = Some(settings)]

\* ------------------------------------------- dashboard: the drain loop
\* requests.push / requests.extend
Push(rs) ==
    /\ requests' = requests \o rs
    /\ appended' = appended \o rs

\* let mut requests = vec![]; connected_to_server = server_connected()
TickStart ==
    /\ ui_pc = "idle"
    /\ requests' = << >>
    /\ connected_to_server' \in BOOLEAN
    /\ ui_pc' = "drain"
    /\ UNCHANGED <<event_queue, transport, fieldVars, tabVars, restartVars,
                   rs_return, sh_return, consumed, inputs, wizard_raises>>
    /\ UNCHANGED <<appended, launcherVars>>

\* the fields of the dashboard the match on event_type reads and writes;
\* raised tells whether the arm executed self.setup_wizard_open = true
Fields ==
    [connections_tab |-> connections_tab,
     statistics_tab |-> statistics_tab,
     settings_tab |-> settings_tab,
     installation_tab |-> installation_tab,
     logs_tab |-> logs_tab,
     notification_bar |-> notification_bar,
     just_opened |-> just_opened,
     setup_wizard_open |-> setup_wizard_open,
     session |-> session,
     new_version_popup |-> new_version_popup,
     raised |-> FALSE]

\* EventType::Log (125-128)
LogArm(d, e) ==
    [d EXCEPT !.notification_bar = push_notification(@, e)]

\* EventType::GraphStatistics (129-131)
GraphStatisticsArm(d, e) ==
    [d EXCEPT !.statistics_tab = [@ EXCEPT !.graph = Some(e.arg)]]

\* EventType::StatisticsSummary (132-134)
StatisticsSummaryArm(d, e) ==
    [d EXCEPT !.statistics_tab = [@ EXCEPT !.summary = Some(e.arg)]]

\* the observers of a Session event (138-141)
SessionObservers(d, s) ==
    [d EXCEPT !.connections_tab = update_client_list(@, s),
              !.settings_tab = update_session(@, s.session_settings),
              !.logs_tab = update_settings(@, to_settings(s)),
              !.notification_bar = update_settings(@, to_settings(s))]

FirstSessionCheckEveryTime(d, settings) ==
    [d EXCEPT !.just_opened = FALSE,
              !.setup_wizard_open = (@ \/ settings.extra.open_setup_wizard),
              !.raised = settings.extra.open_setup_wizard]

\* if self.just_opened { if settings.extra.open_setup_wizard {
\* self.setup_wizard_open = true }  self.just_opened = false } (142-148)
FirstSessionCheck(d, settings) ==
    IF d.just_opened
    THEN [d EXCEPT !.just_opened = FALSE,
                   !.setup_wizard_open = (@ \/ settings.extra.open_setup_wizard),
                   !.raised = settings.extra.open_setup_wizard]
    ELSE d

SessionArmKeepsFirst(d, e) ==
    LET s == e.session[1]
        checked == FirstSessionCheck(SessionObservers(d, s), to_settings(s))
    IN  IF d.session = None THEN [checked EXCEPT !.session = Some(s)] ELSE checked

\* EventType::Session (135-151)
SessionArm(d, e) ==
    LET s == e.session[1]
    IN  [FirstSessionCheck(SessionObservers(d, s), to_settings(s))
            EXCEPT !.session = Some(s)]

\* EventType::DriversList (154)
DriversListArm(d, e) ==
    [d EXCEPT !.installation_tab = [@ EXCEPT !.drivers = Some(e.arg)]]

\* EventType::Adb (155-157)
AdbArm(d, e) ==
    [d EXCEPT !.connections_tab = [@ EXCEPT !.adb_download_progress = Some(e.arg)]]

NewVersionFoundArmKeepsPrior(d, e) ==
    IF d.new_version_popup = None
    THEN [d EXCEPT !.new_version_popup = Some([version |-> e.arg, message |-> e.arg])]
    ELSE d

\* EventType::NewVersionFound (158-160)
NewVersionFoundArm(d, e) ==
    [d EXCEPT !.new_version_popup = Some([version |-> e.arg, message |-> e.arg])]

NoOpArmNotifies(d, e) ==
    [d EXCEPT !.notification_bar = push_notification(@, e)]

\* DebugGroup | Tracking | Buttons | Haptics => () (161-164)
NoOpArm(d, e) == d

\* one turn of the loop body on the dashboard's fields: push_event, then
\* the match (122-165); restart_steamvr touches none of these fields
EventArm(d, e) ==
    LET logged == [d EXCEPT !.logs_tab = push_event(@, e), !.raised = FALSE]
        t == e.event_type
    IN  CASE t = "Log" -> LogArm(logged, e)
          [] t = "GraphStatistics" -> GraphStatisticsArm(logged, e)
          [] t = "StatisticsSummary" -> StatisticsSummaryArm(logged, e)
          [] t = "Session" -> SessionArm(logged, e)
          [] t = "ServerRequestsSelfRestart" -> logged
          [] t = "DriversList" -> DriversListArm(logged, e)
          [] t = "Adb" -> AdbArm(logged, e)
          [] t = "NewVersionFound" -> NewVersionFoundArm(logged, e)
          [] t \in NoOpEventTypes -> NoOpArm(logged, e)

PolledSkipsWhileRestarting(types) ==
    /\ ui_pc = "drain"
    /\ event_queue # << >>
    /\ Head(event_queue).event_type \in types
    /\ event_queue' = Tail(event_queue)
    /\ consumed' = Append(consumed, Head(event_queue))
    /\ LET d == IF server_restarting
                THEN [Fields EXCEPT !.raised = FALSE]
                ELSE EventArm(Fields, Head(event_queue))
       IN  /\ connections_tab' = d.connections_tab
           /\ statistics_tab' = d.statistics_tab
           /\ settings_tab' = d.settings_tab
           /\ installation_tab' = d.installation_tab
           /\ logs_tab' = d.logs_tab
           /\ notification_bar' = d.notification_bar
           /\ just_opened' = d.just_opened
           /\ setup_wizard_open' = d.setup_wizard_open
           /\ session' = d.session
           /\ new_version_popup' = d.new_version_popup
           /\ wizard_raises' = wizard_raises + (IF d.raised THEN 1 ELSE 0)

\* poll_event returned Some(event) of one of the types: the event leaves
\* the source and the fields take the values the loop body gives them
Polled(types) ==
    /\ ui_pc = "drain"
    /\ event_queue # << >>
    /\ Head(event_queue).event_type \in types
    /\ event_queue' = Tail(event_queue)
    /\ consumed' = Append(consumed, Head(event_queue))
    /\ LET d == EventArm(Fields, Head(event_queue))
       IN  /\ connections_tab' = d.connections_tab
           /\ statistics_tab' = d.statistics_tab
           /\ settings_tab' = d.settings_tab
           /\ installation_tab' = d.installation_tab
           /\ logs_tab' = d.logs_tab
           /\ notification_bar' = d.notification_bar
           /\ just_opened' = d.just_opened
           /\ setup_wizard_open' = d.setup_wizard_open
           /\ session' = d.session
           /\ new_version_popup' = d.new_version_popup
           /\ wizard_raises' = wizard_raises + (IF d.raised THEN 1 ELSE 0)

\* what an arm other than ServerRequestsSelfRestart leaves alone
ArmFrame ==
    /\ UNCHANGED <<transport, selected_tab, restartVars, ui_pc, rs_return,
                   sh_return, requests, connected_to_server, inputs>>
    /\ UNCHANGED <<appended, launcherVars>>

DispatchLog == Polled({"Log"}) /\ ArmFrame

DispatchGraphStatistics == Polled({"GraphStatistics"}) /\ ArmFrame

DispatchStatisticsSummary == Polled({"StatisticsSummary"}) /\ ArmFrame

DispatchSession == Polled({"Session"}) /\ ArmFrame

\* ServerRequestsSelfRestart => self.restart_steamvr(&mut requests) (152):
\* the call starts with requests.push(RestartSteamvr) and returns into the
\* loop
DispatchSelfRestart ==
    /\ Polled({"ServerRequestsSelfRestart"})
    /\ Push(<< RestartSteamvrReq >>)
    /\ ui_pc' = "rs_lock"
    /\ rs_return' = "drain"
    /\ UNCHANGED <<transport, selected_tab, restartVars, sh_return,
                   connected_to_server, inputs>>
    /\ UNCHANGED launcherVars

DispatchDriversList == Polled({"DriversList"}) /\ ArmFrame

DispatchAdb == Polled({"Adb"}) /\ ArmFrame

DispatchNewVersionFound == Polled({"NewVersionFound"}) /\ ArmFrame

DispatchNoOp == Polled(NoOpEventTypes) /\ ArmFrame

DrainEndClearsFlag ==
    /\ ui_pc = "drain"
    /\ event_queue = << >>
    /\ ui_pc' = "check"
    /\ server_restarting' = FALSE
    /\ UNCHANGED <<event_queue, transport, fieldVars, tabVars,
                   restarting_lock, condvar_waiting, launcher_lock, threads,
                   rs_return, sh_return, requests, connected_to_server,
                   consumed, inputs, wizard_raises>>
    /\ UNCHANGED <<appended, launcherVars>>

\* poll_event returned None: the loop ends
DrainEnd ==
    /\ ui_pc = "drain"
    /\ event_queue = << >>
    /\ ui_pc' = "check"
    /\ UNCHANGED <<event_queue, transport, fieldVars, tabVars, restartVars,
                   rs_return, sh_return, requests, connected_to_server,
                   consumed, inputs,
                   wizard_raises>>
    /\ UNCHANGED <<appended, launcherVars>>

\* ------------------------------------- dashboard: restart_steamvr (88-112)
\* let mut server_restarting_lock = self.server_restarting.lock()
RestartLock ==
    /\ ui_pc = "rs_lock"
    /\ restarting_lock = "free"
    /\ restarting_lock' = "ui"
    /\ ui_pc' = "rs_check"
    /\ UNCHANGED <<event_queue, transport, fieldVars, tabVars,
                   server_restarting, condvar_waiting, launcher_lock, threads,
                   rs_return, sh_return, requests, connected_to_server,
                   consumed, inputs,
                   wizard_raises>>
    /\ UNCHANGED <<appended, launcherVars>>

RestartCoalesce ==
    /\ ui_pc = "rs_check"
    /\ server_restarting
    /\ restarting_lock' = "free"
    /\ ui_pc' = rs_return
    /\ rs_return' = "drain"
    /\ UNCHANGED <<event_queue, transport, fieldVars, tabVars,
                   server_restarting, condvar_waiting, launcher_lock, threads,
                   sh_return, requests, connected_to_server, consumed, inputs,
                   wizard_raises>>
    /\ UNCHANGED <<appended, launcherVars>>

\* if *server_restarting_lock { condvar.wait(&mut lock) }: the wait releases
\* the mutex and parks the thread
RestartWait ==
    /\ ui_pc = "rs_check"
    /\ server_restarting
    /\ restarting_lock' = "free"
    /\ condvar_waiting' = TRUE
    /\ ui_pc' = "rs_wait"
    /\ UNCHANGED <<event_queue, transport, fieldVars, tabVars,
                   server_restarting, launcher_lock, threads, rs_return,
                   sh_return, requests, connected_to_server, consumed, inputs, wizard_raises>>
    /\ UNCHANGED <<appended, launcherVars>>

\* the flag is false: no wait
RestartNoWait ==
    /\ ui_pc = "rs_check"
    /\ ~server_restarting
    /\ ui_pc' = "rs_set"
    /\ UNCHANGED <<event_queue, transport, fieldVars, tabVars, restartVars,
                   rs_return, sh_return, requests, connected_to_server,
                   consumed, inputs,
                   wizard_raises>>
    /\ UNCHANGED <<appended, launcherVars>>

\* notified: wait returns once the mutex is re-acquired (parking_lot's
\* Condvar has no spurious wakeups)
RestartWake ==
    /\ ui_pc = "rs_wait"
    /\ ~condvar_waiting
    /\ restarting_lock = "free"
    /\ restarting_lock' = "ui"
    /\ ui_pc' = "rs_set"
    /\ UNCHANGED <<event_queue, transport, fieldVars, tabVars,
                   server_restarting, condvar_waiting, launcher_lock, threads,
                   rs_return, sh_return, requests, connected_to_server,
                   consumed, inputs,
                   wizard_raises>>
    /\ UNCHANGED <<appended, launcherVars>>

NextThread == CHOOSE t \in ThreadIds :
    /\ threads[t] = "unborn"
    /\ \A u \in ThreadIds : u < t => threads[u] # "unborn"

\* *server_restarting_lock = true; std::thread::spawn(..); the guard is
\* dropped when the function returns
RestartSetAndSpawn ==
    /\ ui_pc = "rs_set"
    /\ server_restarting' = TRUE
    /\ threads' = [threads EXCEPT ![NextThread] = "spawned"]
    /\ restarting_lock' = "free"
    /\ ui_pc' = rs_return
    /\ rs_return' = "drain"
    /\ UNCHANGED <<event_queue, transport, fieldVars, tabVars,
                   condvar_waiting, launcher_lock, sh_return,
                   requests, connected_to_server, consumed, inputs, wizard_raises>>
    /\ UNCHANGED <<appended, launcherVars>>

\* ------------------------------- dashboard: the spawned thread (105-110)
LauncherNeverBusy == TRUE

\* LAUNCHER.lock(): the launcher's mutex must be free
LauncherFree == launcher_lock = "free"

ThreadRestartsHoldingFlag(t) ==
    /\ threads[t] = "spawned"
    /\ LauncherFree
    /\ restarting_lock = "free"
    /\ restarting_lock' = "thread"
    /\ launcher_lock' = "thread"
    /\ threads' = [threads EXCEPT ![t] = "restarting"]
    /\ UNCHANGED <<event_queue, transport, fieldVars, tabVars,
                   server_restarting, condvar_waiting, ui_pc, rs_return,
                   sh_return, requests, connected_to_server, consumed, inputs,
                   wizard_raises>>
    /\ UNCHANGED <<appended, launcherVars>>

\* crate::steamvr_launcher::LAUNCHER.lock().restart_steamvr() begins
ThreadBeginRestart(t) ==
    /\ threads[t] = "spawned"
    /\ LauncherFree
    /\ launcher_lock' = "thread"
    /\ threads' = [threads EXCEPT ![t] = "restarting"]
    /\ UNCHANGED <<event_queue, transport, fieldVars, tabVars,
                   server_restarting, restarting_lock, condvar_waiting, ui_pc,
                   rs_return, sh_return, requests, connected_to_server,
                   consumed, inputs,
                   wizard_raises>>
    /\ UNCHANGED <<appended, launcherVars>>

\* restart_steamvr() returns and the LAUNCHER guard is dropped
ThreadEndRestart(t) ==
    /\ threads[t] = "restarting"
    /\ launcher_lock' = "free"
    /\ threads' = [threads EXCEPT ![t] = "clear"]
    /\ UNCHANGED <<event_queue, transport, fieldVars, tabVars,
                   server_restarting, restarting_lock, condvar_waiting, ui_pc,
                   rs_return, sh_return, requests, connected_to_server,
                   consumed, inputs,
                   wizard_raises>>
    /\ UNCHANGED <<appended, launcherVars>>

ThreadSkipsClear(t) ==
    /\ threads[t] = "clear"
    /\ restarting_lock = "free"
    /\ threads' = [threads EXCEPT ![t] = "notify"]
    /\ UNCHANGED <<event_queue, transport, fieldVars, tabVars,
                   server_restarting, restarting_lock, condvar_waiting,
                   launcher_lock, ui_pc, rs_return, sh_return, requests,
                   connected_to_server, consumed, inputs, wizard_raises>>
    /\ UNCHANGED <<appended, launcherVars>>

\* *server_restarting.lock() = false
ThreadClearFlag(t) ==
    /\ threads[t] = "clear"
    /\ restarting_lock = "free"
    /\ server_restarting' = FALSE
    /\ threads' = [threads EXCEPT ![t] = "notify"]
    /\ UNCHANGED <<event_queue, transport, fieldVars, tabVars,
                   restarting_lock, condvar_waiting, launcher_lock, ui_pc,
                   rs_return, sh_return, requests, connected_to_server,
                   consumed, inputs,
                   wizard_raises>>
    /\ UNCHANGED <<appended, launcherVars>>

ThreadExitsWithoutNotify(t) ==
    /\ threads[t] = "notify"
    /\ threads' = [threads EXCEPT ![t] = "done"]
    /\ UNCHANGED <<event_queue, transport, fieldVars, tabVars,
                   server_restarting, restarting_lock, condvar_waiting,
                   launcher_lock, ui_pc, rs_return, sh_return, requests,
                   connected_to_server, consumed, inputs, wizard_raises>>
    /\ UNCHANGED <<appended, launcherVars>>

\* condvar.notify_one()
ThreadNotify(t) ==
    /\ threads[t] = "notify"
    /\ condvar_waiting' = FALSE
    /\ threads' = [threads EXCEPT ![t] = "done"]
    /\ UNCHANGED <<event_queue, transport, fieldVars, tabVars,
                   server_restarting, restarting_lock, launcher_lock, ui_pc,
                   rs_return, sh_return, requests, connected_to_server,
                   consumed, inputs,
                   wizard_raises>>
    /\ UNCHANGED <<appended, launcherVars>>

\* --------------------------------- dashboard: after the drain (168-339)
\* the operator gives an input (a click, a wizard or popup answer, a tab's
\* request) in this step, or none
Input(given) ==
    IF given
    THEN inputs < MaxInputs /\ inputs' = inputs + 1
    ELSE inputs' = inputs

\* update returns: its locals are gone
EndTick ==
    /\ ui_pc' = "idle"
    /\ connected_to_server' = FALSE

\* if *self.server_restarting.lock() { ..; return; }: the frame ends on the
\* "SteamVR is restarting" screen and the requests vector goes out of scope
RestartingScreen ==
    /\ ui_pc = "check"
    /\ restarting_lock = "free"
    /\ server_restarting
    /\ EndTick
    /\ requests' = << >>
    /\ UNCHANGED <<event_queue, transport, fieldVars, tabVars, restartVars,
                   rs_return, sh_return, consumed, inputs, wizard_raises>>
    /\ UNCHANGED <<appended, launcherVars>>

\* the flag is false: notification_bar.ui(context) and the panels follow
NotRestarting ==
    /\ ui_pc = "check"
    /\ restarting_lock = "free"
    /\ ~server_restarting

\* self.setup_wizard.ui(ui) returned None
WizardIdle ==
    /\ NotRestarting
    /\ setup_wizard_open
    /\ ui_pc' = "popup"
    /\ UNCHANGED <<event_queue, transport, fieldVars, tabVars, restartVars,
                   rs_return, sh_return, requests, connected_to_server,
                   consumed, inputs,
                   wizard_raises>>
    /\ UNCHANGED <<appended, launcherVars>>

\* SetupWizardRequest::ServerRequest(request) => requests.push(request)
WizardServerRequest ==
    /\ NotRestarting
    /\ setup_wizard_open
    /\ Push(<< "WizardRequest" >>)
    /\ Input(TRUE)
    /\ ui_pc' = "popup"
    /\ UNCHANGED <<event_queue, transport, fieldVars, tabVars, restartVars,
                   rs_return, sh_return, connected_to_server, consumed, wizard_raises>>
    /\ UNCHANGED launcherVars

WizardCloseStaysOpen(finished) ==
    /\ NotRestarting
    /\ setup_wizard_open
    /\ Push(IF finished THEN << CloseWizardReq >> ELSE << >>)
    /\ Input(TRUE)
    /\ ui_pc' = "popup"
    /\ UNCHANGED <<event_queue, transport, fieldVars, tabVars, restartVars,
                   rs_return, sh_return, connected_to_server, consumed, wizard_raises>>
    /\ UNCHANGED launcherVars

\* SetupWizardRequest::Close { finished }
WizardClose(finished) ==
    /\ NotRestarting
    /\ setup_wizard_open
    /\ Push(IF finished THEN << CloseWizardReq >> ELSE << >>)
    /\ setup_wizard_open' = FALSE
    /\ Input(TRUE)
    /\ ui_pc' = "popup"
    /\ UNCHANGED <<event_queue, transport, just_opened, selected_tab,
                   new_version_popup, session, tabVars, restartVars,
                   rs_return, sh_return, connected_to_server, consumed, wizard_raises>>
    /\ UNCHANGED launcherVars

\* the side panel: ui.selectable_value(&mut self.selected_tab, ..) for every
\* tab, then the SteamVR button; here no button is clicked
SidePanel(tab) ==
    /\ NotRestarting
    /\ ~setup_wizard_open
    /\ selected_tab' = tab
    /\ Input(tab # selected_tab)
    /\ ui_pc' = "central"
    /\ UNCHANGED <<event_queue, transport, just_opened, setup_wizard_open,
                   new_version_popup, session, tabVars, restartVars,
                   rs_return, sh_return, requests, connected_to_server,
                   consumed, wizard_raises>>
    /\ UNCHANGED <<appended, launcherVars>>

\* connected_to_server and "Restart SteamVR" clicked:
\* self.restart_steamvr(&mut requests)
SidePanelRestart(tab) ==
    /\ NotRestarting
    /\ ~setup_wizard_open
    /\ connected_to_server
    /\ selected_tab' = tab
    /\ Input(TRUE)
    /\ Push(<< RestartSteamvrReq >>)
    /\ ui_pc' = "rs_lock"
    /\ rs_return' = "central"
    /\ UNCHANGED <<event_queue, transport, just_opened, setup_wizard_open,
                   new_version_popup, session, tabVars, restartVars,
                   sh_return, connected_to_server, consumed, wizard_raises>>
    /\ UNCHANGED launcherVars

\* not connected and "Launch SteamVR" clicked: LAUNCHER.lock() comes next
SidePanelLaunch(tab) ==
    /\ NotRestarting
    /\ ~setup_wizard_open
    /\ ~connected_to_server
    /\ selected_tab' = tab
    /\ Input(TRUE)
    /\ ui_pc' = "launch"
    /\ UNCHANGED <<event_queue, transport, just_opened, setup_wizard_open,
                   new_version_popup, session, tabVars, restartVars,
                   rs_return, sh_return, requests, connected_to_server,
                   consumed, wizard_raises>>
    /\ UNCHANGED <<appended, launcherVars>>

\* crate::steamvr_launcher::LAUNCHER.lock().launch_steamvr(): blocks until
\* the launcher's mutex is free, launches, drops the guard
LaunchSteamvr ==
    /\ ui_pc = "launch"
    /\ LauncherFree
    /\ ui_pc' = "central"
    /\ UNCHANGED <<event_queue, transport, fieldVars, tabVars, restartVars,
                   rs_return, sh_return, requests, connected_to_server,
                   consumed, inputs,
                   wizard_raises>>
    /\ UNCHANGED <<appended, launcherVars>>

\* what a tab's ui() may return: no request or one request
TabOutputs(tab) ==
    IF tab \in {"Devices", "Statistics", "Settings", "Debug"}
    THEN {<< >>, << tab >>}
    ELSE {<< >>}

\* the central panel for every tab but Installation
CentralPanel(out) ==
    /\ ui_pc = "central"
    /\ selected_tab # "Installation"
    /\ out \in TabOutputs(selected_tab)
    /\ Push(out)
    /\ Input(out # << >>)
    /\ ui_pc' = "popup"
    /\ UNCHANGED <<event_queue, transport, fieldVars, tabVars, restartVars,
                   rs_return, sh_return, connected_to_server, consumed, wizard_raises>>
    /\ UNCHANGED launcherVars

\* what InstallationTab::ui may return
InstallationOutputs ==
    {<< >>, << "OpenSetupWizard" >>, << "Installation" >>,
     << "Installation", "OpenSetupWizard" >>}

\* Tab::Installation: OpenSetupWizard => self.setup_wizard_open = true,
\* ServerRequest(request) => requests.push(request)
CentralPanelInstallation(out) ==
    /\ ui_pc = "central"
    /\ selected_tab = "Installation"
    /\ Push(SelectSeq(out, LAMBDA r : r # "OpenSetupWizard"))
    /\ setup_wizard_open' =
          (setup_wizard_open \/ \E i \in 1..Len(out) : out[i] = "OpenSetupWizard")
    /\ Input(out # << >>)
    /\ ui_pc' = "popup"
    /\ UNCHANGED <<event_queue, transport, just_opened, selected_tab,
                   new_version_popup, session, tabVars, restartVars,
                   rs_return, sh_return, connected_to_server, consumed, wizard_raises>>
    /\ UNCHANGED launcherVars

\* if let Some(popup) = &self.new_version_popup: no popup
PopupAbsent ==
    /\ ui_pc = "popup"
    /\ new_version_popup = None
    /\ ui_pc' = "flush"
    /\ UNCHANGED <<event_queue, transport, fieldVars, tabVars, restartVars,
                   rs_return, sh_return, requests, connected_to_server,
                   consumed, inputs,
                   wizard_raises>>
    /\ UNCHANGED <<appended, launcherVars>>

\* popup.ui(context, shutdown_alvr) invokes the closure: shutdown_alvr sends
\* ShutdownSteamvr directly and then takes LAUNCHER
PopupShutdown ==
    /\ ui_pc = "popup"
    /\ new_version_popup # None
    /\ transport' = Append(transport, "ShutdownSteamvr")
    /\ Input(TRUE)
    /\ ui_pc' = "sh_lock"
    /\ sh_return' = "popup_action"
    /\ UNCHANGED <<event_queue, fieldVars, tabVars, restartVars, rs_return,
                   requests, connected_to_server, consumed, wizard_raises>>
    /\ UNCHANGED <<appended, launcherVars>>

\* popup.ui returned None
PopupNoAction ==
    /\ ui_pc \in {"popup", "popup_action"}
    /\ new_version_popup # None
    /\ ui_pc' = "flush"
    /\ UNCHANGED <<event_queue, transport, fieldVars, tabVars, restartVars,
                   rs_return, sh_return, requests, connected_to_server,
                   consumed, inputs,
                   wizard_raises>>
    /\ UNCHANGED <<appended, launcherVars>>

\* popup.ui returned Some(action): CloseWithRequest(request) pushes the
\* request; either action clears the popup
PopupClose(with_request) ==
    /\ ui_pc \in {"popup", "popup_action"}
    /\ new_version_popup # None
    /\ Push(IF with_request THEN << "PopupRequest" >> ELSE << >>)
    /\ new_version_popup' = None
    /\ Input(TRUE)
    /\ ui_pc' = "flush"
    /\ UNCHANGED <<event_queue, transport, just_opened, selected_tab,
                   setup_wizard_open, session, tabVars, restartVars,
                   rs_return, sh_return, connected_to_server, consumed, wizard_raises>>
    /\ UNCHANGED launcherVars

\* LAUNCHER.lock().ensure_steamvr_shutdown(): blocks until the launcher's
\* mutex is free; called from the popup or from the close request
EnsureShutdown ==
    /\ ui_pc = "sh_lock"
    /\ LauncherFree
    /\ IF sh_return = "end"
       THEN EndTick
       ELSE /\ ui_pc' = sh_return
            /\ UNCHANGED connected_to_server
    /\ sh_return' = "end"
    /\ UNCHANGED <<event_queue, transport, fieldVars, tabVars, restartVars,
                   rs_return, requests, consumed, inputs, wizard_raises>>
    /\ UNCHANGED <<appended, launcherVars>>

\* close_requested() && session says open_close_steamvr_with_dashboard
CloseWanted ==
    /\ session # None
    /\ to_settings(session[1]).extra.steamvr_launcher.open_close_steamvr_with_dashboard

\* for request in requests { self.data_sources.request(request) }; no
\* shutdown follows and update returns
Flush ==
    /\ ui_pc = "flush"
    /\ transport' = transport \o requests
    /\ requests' = << >>
    /\ EndTick
    /\ UNCHANGED <<event_queue, fieldVars, tabVars, restartVars, rs_return,
                   sh_return, consumed, inputs, wizard_raises>>
    /\ UNCHANGED <<appended, launcherVars>>

\* the same flush, then the viewport asked to close and the session wants
\* SteamVR closed with the dashboard: shutdown_alvr()
FlushAndShutdown ==
    /\ ui_pc = "flush"
    /\ CloseWanted
    /\ transport' = Append(transport \o requests, "ShutdownSteamvr")
    /\ requests' = << >>
    /\ Input(TRUE)
    /\ ui_pc' = "sh_lock"
    /\ sh_return' = "end"
    /\ UNCHANGED <<event_queue, fieldVars, tabVars, restartVars, rs_return,
                   connected_to_server, consumed, wizard_raises>>
    /\ UNCHANGED <<appended, launcherVars>>

\* ------------------------------------------------------------- launcher
\* ReleaseInfo: the release offered for the server and the one for the client
ServerReleases == {"X"}

ClientReleases == {"Y"}

\* UiMessage (main.rs 32-39)
UiMessage ==
    {[type |-> "InstallServer", release |-> r] : r \in ServerReleases}
    \cup {[type |-> "InstallClient", release |-> r] : r \in ClientReleases}
    \cup {[type |-> "Quit", release |-> "-"]}

\* WorkerMessage (main.rs 19-24), tagged with the number of the command it
\* belongs to (0: none)
Msg(t, n) == [type |-> t, cmd |-> n]

\* mpsc::channel: send appends, recv takes the oldest message
Send(chan, m) == Append(chan, m)

RecvNewest(chan) == [value |-> chan[Len(chan)], rest |-> SubSeq(chan, 1, Len(chan) - 1)]

Recv(chan) == [value |-> Head(chan), rest |-> Tail(chan)]

\* main up to thread::spawn: both channels exist and are empty
LauncherInit ==
    /\ ui_message_chan = << >>
    /\ worker_message_chan = << >>
    /\ sender_dropped = FALSE
    /\ main_pc = "start"
    /\ worker_pc = "unborn"
    /\ current = None
    /\ progress_sent = 0
    /\ submitted = << >>
    /\ received = << >>
    /\ emitted = << >>

\* thread::spawn(|| actions::worker(..)), then eframe::run_native starts
MainSpawn ==
    /\ main_pc = "start"
    /\ main_pc' = "ui"
    /\ worker_pc' = "startup"
    /\ UNCHANGED <<ui_message_chan, worker_message_chan, sender_dropped,
                   current, progress_sent, submitted, received, emitted>>
    /\ UNCHANGED dashVars

\* the UI sends a command through ui_message_sender
UiSubmit(m) ==
    /\ main_pc = "ui"
    /\ Len(submitted) < MaxCmds
    /\ ui_message_chan' = Send(ui_message_chan, [msg |-> m, idx |-> Len(submitted) + 1])
    /\ submitted' = Append(submitted, m)
    /\ UNCHANGED <<worker_message_chan, sender_dropped, main_pc, worker_pc,
                   current, progress_sent, received, emitted>>
    /\ UNCHANGED dashVars

\* the UI polls worker_message_receiver (try_recv) and got a message
UiPoll ==
    /\ main_pc = "ui"
    /\ worker_message_chan # << >>
    /\ worker_message_chan' = Recv(worker_message_chan).rest
    /\ UNCHANGED <<ui_message_chan, sender_dropped, main_pc, worker_pc,
                   current, progress_sent, submitted, received, emitted>>
    /\ UNCHANGED dashVars

\* run_native returns: the Launcher and its ui_message_sender are dropped
UiExit ==
    /\ main_pc = "ui"
    /\ main_pc' = "join"
    /\ sender_dropped' = TRUE
    /\ UNCHANGED <<ui_message_chan, worker_message_chan, worker_pc, current,
                   progress_sent, submitted, received, emitted>>
    /\ UNCHANGED dashVars

\* run_native returned Err: .expect("Failed to run eframe") panics, main
\* unwinds without reaching worker_handle.join() and the process ends with
\* whatever the worker was doing
UiFails ==
    /\ main_pc = "ui"
    /\ main_pc' = "panicked"
    /\ sender_dropped' = TRUE
    /\ UNCHANGED <<ui_message_chan, worker_message_chan, worker_pc, current,
                   progress_sent, submitted, received, emitted>>
    /\ UNCHANGED dashVars

\* the process has not ended by a panic of main: its threads still run
ProcessRunning == main_pc # "panicked"

\* worker_handle.join().unwrap()
MainJoin ==
    /\ main_pc = "join"
    /\ worker_pc = "terminated"
    /\ main_pc' = "exited"
    /\ UNCHANGED <<ui_message_chan, worker_message_chan, sender_dropped,
                   worker_pc, current, progress_sent, submitted, received,
                   emitted>>
    /\ UNCHANGED dashVars

\* the worker sends a message through worker_message_sender
Emit(m) ==
    /\ worker_message_chan' = Send(worker_message_chan, m)
    /\ emitted' = Append(emitted, m)

\* actions::worker starts; it may push ReleaseChannelsInfo before its loop
WorkerStartup(push) ==
    /\ worker_pc = "startup"
    /\ ProcessRunning
    /\ IF push
       THEN Emit(Msg("ReleaseChannelsInfo", 0))
       ELSE UNCHANGED <<worker_message_chan, emitted>>
    /\ worker_pc' = "recv"
    /\ UNCHANGED <<ui_message_chan, sender_dropped, main_pc, current,
                   progress_sent, submitted, received>>
    /\ UNCHANGED dashVars

WorkerQuitKeepsDraining ==
    /\ worker_pc = "recv"
    /\ ProcessRunning
    /\ ui_message_chan # << >>
    /\ Recv(ui_message_chan).value.msg.type = "Quit"
    /\ ui_message_chan' = Recv(ui_message_chan).rest
    /\ received' = Append(received, Recv(ui_message_chan).value)
    /\ worker_pc' = "recv"
    /\ UNCHANGED <<worker_message_chan, sender_dropped, main_pc, current,
                   progress_sent, submitted, emitted>>
    /\ UNCHANGED dashVars

\* step 1-2: the next command is Quit: the loop ends
WorkerQuit ==
    /\ worker_pc = "recv"
    /\ ProcessRunning
    /\ ui_message_chan # << >>
    /\ Recv(ui_message_chan).value.msg.type = "Quit"
    /\ ui_message_chan' = Recv(ui_message_chan).rest
    /\ received' = Append(received, Recv(ui_message_chan).value)
    /\ worker_pc' = "terminated"
    /\ UNCHANGED <<worker_message_chan, sender_dropped, main_pc, current,
                   progress_sent, submitted, emitted>>
    /\ UNCHANGED dashVars

\* step 1, 3: the next command is an install: its action starts
WorkerBegin ==
    /\ worker_pc = "recv"
    /\ ProcessRunning
    /\ ui_message_chan # << >>
    /\ Recv(ui_message_chan).value.msg.type # "Quit"
    /\ ui_message_chan' = Recv(ui_message_chan).rest
    /\ received' = Append(received, Recv(ui_message_chan).value)
    /\ current' = Some(Recv(ui_message_chan).value)
    /\ progress_sent' = 0
    /\ worker_pc' = "exec"
    /\ UNCHANGED <<worker_message_chan, sender_dropped, main_pc, submitted,
                   emitted>>
    /\ UNCHANGED dashVars

\* recv on an empty channel whose sender is gone: the worker ends
WorkerDisconnected ==
    /\ worker_pc = "recv"
    /\ ProcessRunning
    /\ ui_message_chan = << >>
    /\ sender_dropped
    /\ worker_pc' = "terminated"
    /\ UNCHANGED <<ui_message_chan, worker_message_chan, sender_dropped,
                   main_pc, current, progress_sent, submitted, received,
                   emitted>>
    /\ UNCHANGED dashVars

\* step 3: a ProgressUpdate of the running command
WorkerProgress ==
    /\ worker_pc = "exec"
    /\ ProcessRunning
    /\ progress_sent < MaxProgress
    /\ Emit(Msg("ProgressUpdate", current[1].idx))
    /\ progress_sent' = progress_sent + 1
    /\ UNCHANGED <<ui_message_chan, sender_dropped, main_pc, worker_pc,
                   current, submitted, received>>
    /\ UNCHANGED dashVars

WorkerFinishTwice(outcome) ==
    /\ worker_pc = "exec"
    /\ ProcessRunning
    /\ worker_message_chan' =
          Send(Send(worker_message_chan, Msg(outcome, current[1].idx)),
               Msg("Error", current[1].idx))
    /\ emitted' =
          emitted \o << Msg(outcome, current[1].idx), Msg("Error", current[1].idx) >>
    /\ current' = None
    /\ worker_pc' = "recv"
    /\ UNCHANGED <<ui_message_chan, sender_dropped, main_pc, progress_sent,
                   submitted, received>>
    /\ UNCHANGED dashVars

\* step 4: the command ends with Done or with Error; back to step 1
WorkerFinish(outcome) ==
    /\ worker_pc = "exec"
    /\ ProcessRunning
    /\ Emit(Msg(outcome, current[1].idx))
    /\ current' = None
    /\ worker_pc' = "recv"
    /\ UNCHANGED <<ui_message_chan, sender_dropped, main_pc, progress_sent,
                   submitted, received>>
    /\ UNCHANGED dashVars

\* ------------------------------------------------------- specifications
Init == DashInit /\ LauncherInit

\* the dashboard process
Next ==
    \/ \E e \in Events : Publish(e, MaxEvents)
    \/ TickStart
    \/ DispatchLog
    \/ DispatchGraphStatistics
    \/ DispatchStatisticsSummary
    \/ DispatchSession
    \/ DispatchSelfRestart
    \/ DispatchDriversList
    \/ DispatchAdb
    \/ DispatchNewVersionFound
    \/ DispatchNoOp
    \/ DrainEnd
    \/ RestartLock
    \/ RestartWait
    \/ RestartNoWait
    \/ RestartWake
    \/ RestartSetAndSpawn
    \/ \E t \in ThreadIds : ThreadBeginRestart(t)
    \/ \E t \in ThreadIds : ThreadEndRestart(t)
    \/ \E t \in ThreadIds : ThreadClearFlag(t)
    \/ \E t \in ThreadIds : ThreadNotify(t)
    \/ RestartingScreen
    \/ WizardIdle
    \/ WizardServerRequest
    \/ \E finished \in BOOLEAN : WizardClose(finished)
    \/ \E tab \in Tab : SidePanel(tab)
    \/ \E tab \in Tab : SidePanelRestart(tab)
    \/ \E tab \in Tab : SidePanelLaunch(tab)
    \/ LaunchSteamvr
    \/ \E out \in TabOutputs(selected_tab) : CentralPanel(out)
    \/ \E out \in InstallationOutputs : CentralPanelInstallation(out)
    \/ PopupAbsent
    \/ PopupShutdown
    \/ PopupNoAction
    \/ \E with_request \in BOOLEAN : PopupClose(with_request)
    \/ EnsureShutdown
    \/ Flush
    \/ FlushAndShutdown

Spec == Init /\ [][Next]_vars

\* the dashboard when the server only asks for restarts and the operator
\* only uses the SteamVR button
SelfRestartEvent == Ev("ServerRequestsSelfRestart", None, 1)

RestartNext ==
    \/ Publish(SelfRestartEvent, MaxRestarts)
    \/ TickStart
    \/ DispatchSelfRestart
    \/ DrainEnd
    \/ RestartLock
    \/ RestartWait
    \/ RestartNoWait
    \/ RestartWake
    \/ RestartSetAndSpawn
    \/ \E t \in ThreadIds : ThreadBeginRestart(t)
    \/ \E t \in ThreadIds : ThreadEndRestart(t)
    \/ \E t \in ThreadIds : ThreadClearFlag(t)
    \/ \E t \in ThreadIds : ThreadNotify(t)
    \/ RestartingScreen
    \/ SidePanel(selected_tab)
    \/ SidePanelRestart(selected_tab)
    \/ SidePanelLaunch(selected_tab)
    \/ LaunchSteamvr
    \/ CentralPanel(<< >>)
    \/ PopupAbsent
    \/ Flush

RestartSpec == Init /\ [][RestartNext]_vars

\* the dashboard when the server only publishes sessions and the operator
\* only uses the setup wizard and the Installation tab
SessionNext ==
    \/ \E s \in SessionConfig : Publish(Ev("Session", Some(s), 0), MaxSessions)
    \/ TickStart
    \/ DispatchSession
    \/ DrainEnd
    \/ WizardIdle
    \/ WizardServerRequest
    \/ \E finished \in BOOLEAN : WizardClose(finished)
    \/ \E tab \in {selected_tab, "Installation"} : SidePanel(tab)
    \/ CentralPanel(<< >>)
    \/ \E out \in InstallationOutputs : CentralPanelInstallation(out)
    \/ PopupAbsent
    \/ Flush

SessionSpec == Init /\ [][SessionNext]_vars

\* the launcher process
LauncherNext ==
    \/ MainSpawn
    \/ \E m \in UiMessage : UiSubmit(m)
    \/ UiPoll
    \/ UiExit
    \/ UiFails
    \/ MainJoin
    \/ \E push \in BOOLEAN : WorkerStartup(push)
    \/ WorkerQuit
    \/ WorkerBegin
    \/ WorkerDisconnected
    \/ WorkerProgress
    \/ \E outcome \in {"Done", "Error"} : WorkerFinish(outcome)

LauncherSpec == Init /\ [][LauncherNext]_vars

\* the restart gate with the scheduling the threads get: the interactive
\* thread keeps running inside restart_steamvr, and every spawned thread
\* runs to its end (the launcher's restart_steamvr returns)
FairRestartSpec ==
    /\ RestartSpec
    /\ WF_vars(RestartLock)
    /\ WF_vars(RestartWait)
    /\ WF_vars(RestartNoWait)
    /\ WF_vars(RestartWake)
    /\ WF_vars(RestartSetAndSpawn)
    /\ \A t \in ThreadIds :
          /\ WF_vars(ThreadBeginRestart(t))
          /\ WF_vars(ThreadEndRestart(t))
          /\ WF_vars(ThreadClearFlag(t))
          /\ WF_vars(ThreadNotify(t))

\* the drain loop and the flush without an operator: Log, Session and
\* ServerRequestsSelfRestart events arrive in any batching over the frames
BatchEvents ==
    {e \in Events : e.event_type \in {"Log", "Session", "ServerRequestsSelfRestart"}}

BatchNext ==
    \/ \E e \in BatchEvents : Publish(e, MaxBatch)
    \/ TickStart
    \/ DispatchLog
    \/ DispatchSession
    \/ DispatchSelfRestart
    \/ DrainEnd
    \/ RestartLock
    \/ RestartWait
    \/ RestartNoWait
    \/ RestartWake
    \/ RestartSetAndSpawn
    \/ \E t \in ThreadIds :
          \/ ThreadBeginRestart(t)
          \/ ThreadEndRestart(t)
          \/ ThreadClearFlag(t)
          \/ ThreadNotify(t)
    \/ RestartingScreen
    \/ WizardIdle
    \/ SidePanel(selected_tab)
    \/ CentralPanel(<< >>)
    \/ PopupAbsent
    \/ Flush

BatchSpec == Init /\ [][BatchNext]_vars

\* the update notice: NewVersionFound events and the popup's answers
PopupNext ==
    \/ \E e \in {x \in Events : x.event_type = "NewVersionFound"} :
          Publish(e, MaxVersions)
    \/ TickStart
    \/ DispatchNewVersionFound
    \/ DrainEnd
    \/ SidePanel(selected_tab)
    \/ CentralPanel(<< >>)
    \/ PopupAbsent
    \/ PopupShutdown
    \/ PopupNoAction
    \/ \E with_request \in BOOLEAN : PopupClose(with_request)
    \/ EnsureShutdown
    \/ Flush

PopupSpec == Init /\ [][PopupNext]_vars

\* ------------------------------------------------------------------ claims
\* the threads inside the launcher's restart_steamvr
Restarting == {t \in ThreadIds : threads[t] = "restarting"}

\* the threads spawned that have not yet cleared the flag
Pending == {t \in ThreadIds : threads[t] \in {"spawned", "restarting", "clear"}}

\* the interactive thread is inside restart_steamvr
InRestartCall == ui_pc \in {"rs_lock", "rs_check", "rs_wait", "rs_set"}

\* C1: whatever the number and timing of the restart requests, at most one
\* spawned thread is inside the launcher's restart_steamvr in any state.
C1_AtMostOneRestartRuns == Cardinality(Restarting) <= 1

\* C1's case: a restart runs while another spawned thread is at LAUNCHER.lock()
C1_Witness ==
    \E t, u \in ThreadIds : threads[t] = "restarting" /\ threads[u] = "spawned"

\* the requests handed to the transport that went through a requests vector
Buffered(sent) ==
    SelectSeq(sent, LAMBDA r : r \notin {"GetSession", "ShutdownSteamvr"})

\* C2: between frames every request ever pushed onto a requests vector has
\* been handed to the transport, once and in push order, and no vector holds
\* a request.
C2_EveryPushedRequestIsSent ==
    ui_pc = "idle" => (Buffered(transport) = appended /\ requests = << >>)

\* C3: every call of restart_steamvr returns: the interactive thread never
\* stays inside the call, waiting on the condvar or elsewhere, forever.
C3_EveryRestartCallReturns == InRestartCall ~> ~InRestartCall

\* C3's case: the caller is parked on the condvar while a restart is pending
C3_Witness == ui_pc = "rs_wait" /\ condvar_waiting /\ Pending # {}

\* the fields as Dashboard::new leaves them
InitFields ==
    [connections_tab |-> [clients |-> None, adb_download_progress |-> None],
     statistics_tab |-> [graph |-> None, summary |-> None],
     settings_tab |-> [session_settings |-> None],
     installation_tab |-> [drivers |-> None],
     logs_tab |-> [entries |-> << >>, settings |-> None],
     notification_bar |-> [notifications |-> << >>, settings |-> None],
     just_opened |-> TRUE,
     setup_wizard_open |-> FALSE,
     session |-> None,
     new_version_popup |-> None,
     raised |-> FALSE]

\* the open_setup_wizard flag a Session event carries
OpensWizard(e) == to_settings(e.session[1]).extra.open_setup_wizard

\* the state derived from Session events: stored session, device list,
\* settings, log and notification filters
SessionDerived(d) ==
    <<d.session, d.connections_tab, d.settings_tab, d.logs_tab,
      d.notification_bar>>

\* C4: the open_setup_wizard flag is evaluated on the first Session event
\* only: Session events raise the wizard at most once, exactly once when the
\* first one carries the flag (whatever the later ones carry) and never when
\* it does not, and a Session event that is not the first leaves
\* setup_wizard_open as it is.
C4_WizardCheckedOnFirstSessionOnly ==
    /\ [](/\ wizard_raises <= 1
          /\ just_opened = (consumed = << >>)
          /\ consumed # << >> =>
                wizard_raises = (IF OpensWizard(consumed[1]) THEN 1 ELSE 0))
    /\ [][(consumed # << >> /\ consumed' # consumed)
             => setup_wizard_open' = setup_wizard_open]_vars

\* C4's case: two Session events, both with open_setup_wizard = true, applied
C4_Witness ==
    /\ Len(consumed) = 2
    /\ OpensWizard(consumed[1])
    /\ OpensWizard(consumed[2])
    /\ wizard_raises = 1

\* C5 as stated: after [Session(A), Session(B)] and no operator input, the
\* derived state, wizard-open state included, is the one that applying
\* Session(B) alone to the initial state gives.
C5_TwoSessionsEqualTheSecond ==
    (Len(consumed) = 2 /\ inputs = 0) =>
        LET b == EventArm(InitFields, consumed[2])
        IN  /\ SessionDerived(Fields) = SessionDerived(b)
            /\ setup_wizard_open = b.setup_wizard_open

\* C5 amended: after [Session(A), Session(B)] and no operator input, the
\* stored session, device list, settings and log/notification filters are
\* those of applying Session(B) alone, and the wizard-open state is the one
\* of applying Session(A) alone.
C5_SecondSessionWinsButWizardIsTheFirsts ==
    (Len(consumed) = 2 /\ inputs = 0) =>
        LET a == EventArm(InitFields, consumed[1])
            b == EventArm(InitFields, consumed[2])
        IN  /\ SessionDerived(Fields) = SessionDerived(b)
            /\ setup_wizard_open = a.setup_wizard_open
            /\ just_opened = b.just_opened

\* C5's case: two different snapshots whose open_setup_wizard flags differ
C5_Witness ==
    /\ Len(consumed) = 2
    /\ inputs = 0
    /\ ui_pc = "idle"
    /\ consumed[1].session[1].client_connections
          # consumed[2].session[1].client_connections
    /\ OpensWizard(consumed[1]) # OpensWizard(consumed[2])

\* the events applied one at a time, in order, to the fields d
RECURSIVE Replay(_, _)
Replay(d, evs) ==
    IF evs = << >> THEN d ELSE Replay(EventArm(d, Head(evs)), Tail(evs))

\* the requests the events ask for, in order: one RestartSteamvr per
\* ServerRequestsSelfRestart
RequestsOf(evs) ==
    [i \in 1..Len(SelectSeq(evs, LAMBDA e : e.event_type = "ServerRequestsSelfRestart"))
        |-> RestartSteamvrReq]

\* what the observers hold
Observed(d) == [d EXCEPT !.raised = FALSE]

\* C6: however the events were batched over the frames, once they are all
\* drained and the frame is over, the observers hold what applying the
\* events one at a time gives and the transport has received the requests
\* the events ask for, in order.
C6_BatchingIsUnobservable ==
    (ui_pc = "idle" /\ event_queue = << >>) =>
        /\ Observed(Fields) = Observed(Replay(InitFields, consumed))
        /\ Buffered(transport) = RequestsOf(consumed)

\* C7: the step that consumes a DebugGroup, Tracking, Buttons or Haptics
\* event takes the event from the source and changes nothing else:
\* log history, notifications, statistics, session, device list,
\* wizard-open state, pending update notice and restart flag keep their
\* values and no request is pushed or sent.
C7_NoOpEventsChangeNothing ==
    [][(/\ event_queue # << >>
        /\ Head(event_queue).event_type \in NoOpEventTypes
        /\ consumed' = Append(consumed, Head(event_queue)))
       => /\ event_queue' = Tail(event_queue)
          /\ UNCHANGED <<tabVars, fieldVars, restartVars, requests, appended,
                         transport, wizard_raises>>]_vars

\* C7's case: a no-op event has been consumed
C7_Witness ==
    /\ consumed # << >>
    /\ consumed[Len(consumed)].event_type \in NoOpEventTypes
    /\ ui_pc = "drain"

\* the messages of command number k among the emitted ones, as positions
MessagesOf(k) == {i \in 1..Len(emitted) : emitted[i].cmd = k}

Terminal(m) == m.type \in {"Done", "Error"}

TerminalsOf(k) == {i \in MessagesOf(k) : Terminal(emitted[i])}

\* the commands sent before the first Quit
BeforeQuit(k) == \A j \in 1..k : submitted[j].type # "Quit"

\* C8: the worker takes the commands in send order and one at a time: the
\* commands received are a prefix of the commands sent, all messages of a
\* command come before any message of a later command, the earlier command
\* has ended with Done or Error when a later one emits, and no message
\* belongs to a command sent at or after a Quit.
C8_CommandsProcessedInSendOrder ==
    /\ \A i \in 1..Len(received) :
          received[i].idx = i /\ received[i].msg = submitted[i]
    /\ \A i, j \in 1..Len(emitted) :
          (i < j /\ emitted[i].cmd # 0) =>
             /\ emitted[i].cmd <= emitted[j].cmd
             /\ emitted[i].cmd < emitted[j].cmd =>
                   \E t \in TerminalsOf(emitted[i].cmd) : t < j
    /\ \A i \in 1..Len(emitted) :
          emitted[i].cmd # 0 => BeforeQuit(emitted[i].cmd)

\* C8's case: [InstallServer(X), InstallClient(Y), Quit] sent and worked
\* through, X with a progress message
C8_Witness ==
    /\ submitted =
          << [type |-> "InstallServer", release |-> "X"],
             [type |-> "InstallClient", release |-> "Y"],
             [type |-> "Quit", release |-> "-"] >>
    /\ Len(received) = 3
    /\ \E i \in MessagesOf(1) : emitted[i].type = "ProgressUpdate"
    /\ TerminalsOf(2) # {}

\* the commands whose action has ended: received, not Quit, not running
Executed ==
    {k \in 1..Len(received) :
        /\ received[k].msg.type # "Quit"
        /\ (current = None \/ current[1].idx # k)}

\* C9: a command the worker has executed has exactly one terminal message,
\* Done or Error, and it is the last message of the command: every
\* ProgressUpdate of the command precedes it and nothing of the command
\* follows it.  A command still running has none.
C9_ExactlyOneTerminalMessage ==
    /\ \A k \in Executed :
          /\ Cardinality(TerminalsOf(k)) = 1
          /\ \A t \in TerminalsOf(k) : \A i \in MessagesOf(k) : i <= t
    /\ current # None => TerminalsOf(current[1].idx) = {}

\* C9's case: one command ended with Done after a progress message, another
\* with Error
C9_Witness ==
    \E k, l \in Executed :
        /\ \E i \in MessagesOf(k) : emitted[i].type = "ProgressUpdate"
        /\ \E t \in TerminalsOf(k) : emitted[t].type = "Done"
        /\ \E t \in TerminalsOf(l) : emitted[t].type = "Error"

\* the positions of Quit among the commands received
QuitsReceived == {i \in 1..Len(received) : received[i].msg.type = "Quit"}

\* C10: once Quit is received the worker is terminated, Quit is the last
\* command it ever received and the commands behind Quit stay unreceived
\* and emit nothing.
C10_QuitEndsTheWorker ==
    QuitsReceived # {} =>
        /\ worker_pc = "terminated"
        /\ QuitsReceived = {Len(received)}
        /\ current = None
        /\ \A i \in 1..Len(emitted) : emitted[i].cmd < Len(received)

\* C10's case: Quit received with two commands queued behind it
C10_Witness ==
    /\ QuitsReceived # {}
    /\ Len(submitted) = Len(received) + 2
    /\ Len(ui_message_chan) = 2
    /\ ui_message_chan[1].msg.type # "Quit"

\* main has returned or has unwound: the process is over
ProcessEnded == main_pc \in {"exited", "panicked"}

\* C11: when the launcher process is over the worker thread has terminated
\* (it is not inside a command's action), and it terminated on a Quit or on
\* the closing of the command channel.
C11_ExitOnlyAfterWorkerTerminated ==
    ProcessEnded =>
        /\ worker_pc = "terminated"
        /\ current = None
        /\ (QuitsReceived # {} \/ sender_dropped)

\* the interactive thread is at a LAUNCHER.lock() of update
AtLauncherLock == ui_pc \in {"launch", "sh_lock"}

\* C12: outside restart_steamvr the interactive thread never waits for a
\* restart: when it is at LAUNCHER.lock() for launch_steamvr or
\* ensure_steamvr_shutdown, no spawned thread holds the launcher's mutex
\* for its restart.
C12_OnlyRestartSteamvrBlocks ==
    AtLauncherLock => launcher_lock # "thread"

\* C13: when the event source is empty the drain loop ends at once: the
\* interactive thread can always take the step, and the step dispatches
\* nothing, changes no observer, pushes and sends no request and leaves the
\* restart flag alone.
C13_EmptyPollChangesNothing ==
    /\ []((ui_pc = "drain" /\ event_queue = << >>) => ENABLED DrainEnd)
    /\ [][(ui_pc = "drain" /\ event_queue = << >> /\ ui_pc' # ui_pc)
            => /\ ui_pc' = "check"
               /\ UNCHANGED <<event_queue, consumed, tabVars, fieldVars,
                              restartVars, requests, appended, transport,
                              wizard_raises>>]_vars

\* C13's case: a frame after the one that served a self-restart found the
\* source empty and is past its drain loop
C13_Witness ==
    /\ ui_pc = "check"
    /\ event_queue = << >>
    /\ consumed # << >>
    /\ consumed[1].event_type = "ServerRequestsSelfRestart"
    /\ requests = << >>
    /\ server_restarting

\* C14: the restart flag tracks the pending restarts: when the flag is true
\* exactly one spawned thread has yet to clear it, and when a spawned thread
\* has yet to clear it the flag is true (read while no thread is between
\* taking the flag's mutex and spawning).
C14_FlagTracksPendingRestarts ==
    restarting_lock = "free" =>
        /\ server_restarting => Cardinality(Pending) = 1
        /\ Pending # {} => server_restarting

\* the calls of restart_steamvr made so far: each starts by pushing
\* RestartSteamvr
Calls == Len(SelectSeq(appended, LAMBDA r : r = RestartSteamvrReq))

\* the threads spawned so far
Spawned == {t \in ThreadIds : threads[t] # "unborn"}

C16_FlagEventuallyCleared ==
    <>[](/\ ~server_restarting
         /\ ~condvar_waiting
         /\ \A t \in Spawned : threads[t] = "done")

\* C16's case: the flag is true and the restart has returned; the thread is
\* about to clear the flag
C16_Witness ==
    /\ server_restarting
    /\ \E t \in ThreadIds : threads[t] = "clear"
    /\ Restarting = {}

\* C17: the flag's mutex is not held across a restart: no spawned thread
\* holds it while it runs the launcher's restart, the interactive thread
\* holds it only between its lock() and its wait or its return from
\* restart_steamvr (not while parked), and while it holds it its next step
\* is never blocked.
C17_FlagMutexNotHeldAcrossRestart ==
    /\ Restarting # {} => restarting_lock # "thread"
    /\ (restarting_lock = "ui") = (ui_pc \in {"rs_check", "rs_set"})
    /\ ui_pc = "rs_check" => ENABLED (RestartWait \/ RestartNoWait)
    /\ ui_pc = "rs_set" => ENABLED RestartSetAndSpawn

\* C17's case: update reads the flag at its check while a spawned thread is
\* running the restart, and the flag's mutex is free
C17_Witness ==
    /\ ui_pc = "check"
    /\ Restarting # {}
    /\ restarting_lock = "free"
    /\ server_restarting

\* C18: a frame leaves its drain loop only when the source is empty, and the
\* flag is checked after that; whatever the restart flag says, the step that
\* consumes an event takes the oldest pending one and applies it to the
\* observers, and no other step removes an event from the source.
C18_DrainCompleteBeforeFlagCheck ==
    /\ [][(ui_pc = "drain" /\ ui_pc' = "check") => event_queue = << >>]_vars
    /\ [][(ui_pc' = "check" /\ ui_pc # "check") => ui_pc = "drain"]_vars
    /\ [][consumed' # consumed =>
            /\ event_queue # << >>
            /\ consumed' = Append(consumed, Head(event_queue))
            /\ event_queue' = Tail(event_queue)
            /\ Observed(Fields)' = Observed(EventArm(Fields, Head(event_queue)))]_vars
    /\ [][consumed' = consumed =>
            \/ event_queue' = event_queue
            \/ \E e \in Events : event_queue' = Append(event_queue, e)]_vars

\* C18's case: a Log event was consumed and applied while the flag was true:
\* the thread of the self-restart before it has not started yet
C18_Witness ==
    /\ Len(consumed) = 2
    /\ consumed[1].event_type = "ServerRequestsSelfRestart"
    /\ consumed[2].event_type = "Log"
    /\ threads[1] = "spawned"
    /\ server_restarting
    /\ logs_tab.entries = << consumed[2].arg >>
    /\ notification_bar.notifications = << consumed[2].arg >>
    /\ ui_pc = "idle"

\* the SetValues(open_setup_wizard = false) requests pushed so far
CloseWrites(pushed) == Len(SelectSeq(pushed, LAMBDA r : r = CloseWizardReq))

\* the step is the wizard reporting Close: taken at the wizard's place in the
\* frame, on an operator's answer, with the wizard open
WizardCloseStep ==
    /\ ui_pc = "check"
    /\ ui_pc' = "popup"
    /\ setup_wizard_open
    /\ inputs' = inputs + 1

\* C19: SetValues(open_setup_wizard = false) is pushed only by the step in
\* which the wizard reports Close, once, as the only request of that step,
\* and that step leaves the wizard closed; an open wizard is closed by no
\* other step, so it stays open over the frames until a Close.
C19_WizardClosesOnlyOnClose ==
    /\ [][CloseWrites(appended') # CloseWrites(appended) =>
            /\ WizardCloseStep
            /\ appended' = Append(appended, CloseWizardReq)
            /\ ~setup_wizard_open']_vars
    /\ [][(setup_wizard_open /\ ~setup_wizard_open') =>
            /\ WizardCloseStep
            /\ appended' \in {appended, Append(appended, CloseWizardReq)}]_vars

\* C19's case: the wizard, opened by the first Session event, was closed with
\* finished = true and the frame has sent the request
C19_Witness ==
    /\ wizard_raises = 1
    /\ ~setup_wizard_open
    /\ appended = << CloseWizardReq >>
    /\ Buffered(transport) = << CloseWizardReq >>
    /\ ui_pc = "idle"

\* the notice a NewVersionFound event asks for
NoticeOf(e) == Some([version |-> e.arg, message |-> e.arg])

\* the CloseWithRequest requests pushed so far
PopupWrites(pushed) == Len(SelectSeq(pushed, LAMBDA r : r = "PopupRequest"))

\* the step is the popup reporting a close action on an operator's answer
PopupCloseStep ==
    /\ ui_pc \in {"popup", "popup_action"}
    /\ ui_pc' = "flush"
    /\ new_version_popup # None
    /\ new_version_popup' = None
    /\ inputs' = inputs + 1

\* C20: the step that consumes a NewVersionFound event leaves the notice of
\* that event, whatever notice was there; while the operator has answered
\* nothing the notice is that of the most recent event; the notice is
\* cleared only by the step in which the popup reports a close action, and
\* the request of a CloseWithRequest is pushed in that step and in no other.
C20_NoticeIsTheMostRecent ==
    /\ [][(consumed' # consumed /\ event_queue # << >>
             /\ Head(event_queue).event_type = "NewVersionFound")
            => new_version_popup' = NoticeOf(Head(event_queue))]_vars
    /\ []((inputs = 0 /\ consumed # << >>)
            => new_version_popup = NoticeOf(consumed[Len(consumed)]))
    /\ [][(new_version_popup # None /\ new_version_popup' = None)
            => /\ PopupCloseStep
               /\ appended' \in {appended, Append(appended, "PopupRequest")}]_vars
    /\ [][PopupWrites(appended') # PopupWrites(appended)
            => /\ PopupCloseStep
               /\ appended' = Append(appended, "PopupRequest")]_vars

\* C20's case: two NewVersionFound events with different versions were
\* applied and the notice shows the second
C20_Witness ==
    /\ Len(consumed) = 2
    /\ consumed[1].arg # consumed[2].arg
    /\ new_version_popup = NoticeOf(consumed[2])
    /\ ui_pc = "flush"

====
